---- MODULE Spec2Model ----
(***************************************************************************)
(* Model of src/libtsduck/dtv/transport/tsTS.cpp (TSDuck): the bitrate     *)
(* arbiter, the PCR / PTS wraparound arithmetic and the timestamp          *)
(* renderer.  Every function of the file is pure, so the state machine is  *)
(* one call: Init draws the function and its arguments, the function's     *)
(* action computes the result as the code computes it.                     *)
(*                                                                         *)
(* TLC integers are 32 bits wide, so the 64-bit machine word and the       *)
(* constants of tsTS.h are scaled down, keeping their relations:           *)
(*   uint64_t / int64_t   64 bits            -> WordBits bits              *)
(*   PTS_DTS_SCALE        2^33               -> 2^BaseBits                 *)
(*   SYSTEM_CLOCK_SCALE   300                -> 3                          *)
(*   PCR_SCALE            PTS_DTS_SCALE*300  -> PTS_DTS_SCALE*3            *)
(*   SYSTEM_CLOCK_SUBFREQ 90,000 Hz          -> 1,000 Hz                   *)
(*   SYSTEM_CLOCK_FREQ    SUBFREQ*300        -> SUBFREQ*3                  *)
(*   PKT_SIZE             188 bytes          -> 1 byte                     *)
(* As in the program, 2*PCR_SCALE is far below 2^(WordBits-1), 2^WordBits  *)
(* is no multiple of PCR_SCALE, and frequency / 1000 is at least 1.        *)
(***************************************************************************)
EXTENDS Integers, Sequences, FiniteSets, TLC

VARIABLES pc, fn, arg, wrapUp, res

vars == <<pc, fn, arg, wrapUp, res>>

----------------------------------------------------------------------------
(* Bounds of the model. *)

\* Width of the machine word standing for uint64_t / int64_t.
WordBits == 20

\* Width of the base clock counter (33 bits in MPEG-2).
BaseBits == 3

\* Highest rank of the BitRateConfidence enumeration drawn as input.
MaxConfidence == 2

\* Bitrates drawn as input: 0, 1, the multiples of BitrateStep and FastBitrate.
BitrateStep == 700

MaxBitrateSteps == 4

\* Offsets of AddPCR are drawn within this many PCR_SCALE periods of 0.
MaxOffsetPeriods == 2

----------------------------------------------------------------------------
(* Machine integers. *)

RECURSIVE Pow(_, _)
Pow(b, n) == IF n = 0 THEN 1 ELSE b * Pow(b, n - 1)

\* Number of values of a uint64_t.
UINT64_RANGE == Pow(2, WordBits)

INT64_MAX == Pow(2, WordBits - 1) - 1

INT64_MIN == -Pow(2, WordBits - 1)

\* Conversion of a mathematical integer to uint64_t (modulo 2^w).
ToUint64(x) == x % UINT64_RANGE

\* Two's-complement wraparound of an int64_t computation.
WrapInt64(x) == ((x - INT64_MIN) % UINT64_RANGE) + INT64_MIN

\* The C++ '%' on signed operands: the remainder has the sign of the dividend.
CRem(a, b) == IF a >= 0 THEN a % b ELSE -((-a) % b)

----------------------------------------------------------------------------
(* Constants of tsTS.h. *)

PKT_SIZE == 1

PKT_SIZE_BITS == 8 * PKT_SIZE

SYSTEM_CLOCK_SCALE == 3

SYSTEM_CLOCK_SUBFREQ == 1000

SYSTEM_CLOCK_FREQ == SYSTEM_CLOCK_SUBFREQ * SYSTEM_CLOCK_SCALE

PTS_DTS_SCALE == Pow(2, BaseBits)

MAX_PTS_DTS == PTS_DTS_SCALE - 1

INVALID_PTS == UINT64_RANGE - 1

PCR_SCALE == PTS_DTS_SCALE * SYSTEM_CLOCK_SCALE

MAX_PCR == PCR_SCALE - 1

INVALID_PCR == UINT64_RANGE - 1

\* WrapUpPCR is declared in tsTS.h; the predicate is a parameter of the
\* model: wrapUp is its extension on the operands of the call.
WrapUpPCR(pcr1, pcr2) == <<pcr1, pcr2>> \in wrapUp

----------------------------------------------------------------------------
(* The BitRate number type (tsBitRate.h): a non-negative quantity whose    *)
(* division rounds towards zero.                                           *)

BitRateOf(n) == n

BitRateDiv(a, b) == a \div b

BitRateToInt(a) == a

----------------------------------------------------------------------------
(* Bitrate arbiter. *)

SelectBitrate_SwappedRank(bitrate1, brc1, bitrate2, brc2) ==
    IF bitrate1 = 0 THEN bitrate2
    ELSE IF bitrate2 = 0 THEN bitrate1
    ELSE IF brc1 = brc2 THEN BitRateDiv(bitrate1 + bitrate2, 2)
    ELSE IF brc1 < brc2 THEN bitrate1
    ELSE bitrate2

SelectBitrate(bitrate1, brc1, bitrate2, brc2) ==
    IF bitrate1 = 0 THEN bitrate2
    ELSE IF bitrate2 = 0 THEN bitrate1
    ELSE IF brc1 = brc2 THEN BitRateDiv(bitrate1 + bitrate2, 2)
    ELSE IF brc1 > brc2 THEN bitrate1
    ELSE bitrate2

----------------------------------------------------------------------------
(* PCR arithmetic. *)

NextPCR_WrapAtMax(last_pcr, distance, bitrate) ==
    IF last_pcr = INVALID_PCR \/ bitrate = 0 THEN INVALID_PCR
    ELSE LET ticks    == ToUint64(distance * PKT_SIZE_BITS * SYSTEM_CLOCK_FREQ)
             next_pcr == ToUint64(last_pcr + BitRateToInt(BitRateDiv(BitRateOf(ticks), bitrate)))
         IN  IF next_pcr >= MAX_PCR THEN ToUint64(next_pcr - PCR_SCALE) ELSE next_pcr

NextPCR_NoWrap(last_pcr, distance, bitrate) ==
    IF last_pcr = INVALID_PCR \/ bitrate = 0 THEN INVALID_PCR
    ELSE LET ticks == ToUint64(distance * PKT_SIZE_BITS * SYSTEM_CLOCK_FREQ)
         IN  ToUint64(last_pcr + BitRateToInt(BitRateDiv(BitRateOf(ticks), bitrate)))

NextPCR(last_pcr, distance, bitrate) ==
    IF last_pcr = INVALID_PCR \/ bitrate = 0 THEN INVALID_PCR
    ELSE LET ticks    == ToUint64(distance * PKT_SIZE_BITS * SYSTEM_CLOCK_FREQ)
             next_pcr == ToUint64(last_pcr + BitRateToInt(BitRateDiv(BitRateOf(ticks), bitrate)))
         IN  IF next_pcr >= PCR_SCALE THEN ToUint64(next_pcr - PCR_SCALE) ELSE next_pcr

\* int64_t(pcr) + offset leaves the range of int64_t: undefined behaviour.
AddPCROverflows(pcr, offset) ==
    pcr <= MAX_PCR /\ (pcr + offset > INT64_MAX \/ pcr + offset < INT64_MIN)

\* The value returned by AddPCR; when the sum overflows, by a build whose
\* signed addition wraps around.
AddPCR(pcr, offset) ==
    IF pcr > MAX_PCR THEN INVALID_PCR
    ELSE LET r == CRem(WrapInt64(pcr + offset), PCR_SCALE)
         IN  IF r < 0 THEN ToUint64(PCR_SCALE + r) ELSE ToUint64(r)

DiffPCR_NoWrap(pcr1, pcr2) ==
    IF pcr1 > MAX_PCR \/ pcr2 > MAX_PCR THEN INVALID_PCR
    ELSE ToUint64(pcr2 - pcr1)

DiffPCR_OneCheck(pcr1, pcr2) ==
    IF pcr1 > MAX_PCR THEN INVALID_PCR
    ELSE IF pcr2 >= pcr1 THEN pcr2 - pcr1 ELSE ToUint64(PCR_SCALE + pcr2 - pcr1)

DiffPCR(pcr1, pcr2) ==
    IF pcr1 > MAX_PCR \/ pcr2 > MAX_PCR THEN INVALID_PCR
    ELSE IF pcr2 >= pcr1 THEN pcr2 - pcr1 ELSE ToUint64(PCR_SCALE + pcr2 - pcr1)

AbsDiffPCR_Forward(pcr1, pcr2) ==
    IF pcr1 > MAX_PCR \/ pcr2 > MAX_PCR THEN INVALID_PCR
    ELSE IF WrapUpPCR(pcr1, pcr2) THEN ToUint64(PCR_SCALE + pcr2 - pcr1)
    ELSE IF WrapUpPCR(pcr2, pcr1) THEN ToUint64(PCR_SCALE + pcr1 - pcr2)
    ELSE ToUint64(pcr2 - pcr1)

AbsDiffPCR_SameWrap(pcr1, pcr2) ==
    IF pcr1 > MAX_PCR \/ pcr2 > MAX_PCR THEN INVALID_PCR
    ELSE IF WrapUpPCR(pcr1, pcr2) THEN ToUint64(PCR_SCALE + pcr2 - pcr1)
    ELSE IF WrapUpPCR(pcr2, pcr1) THEN ToUint64(PCR_SCALE + pcr2 - pcr1)
    ELSE IF pcr2 >= pcr1 THEN pcr2 - pcr1
    ELSE pcr1 - pcr2

AbsDiffPCR(pcr1, pcr2) ==
    IF pcr1 > MAX_PCR \/ pcr2 > MAX_PCR THEN INVALID_PCR
    ELSE IF WrapUpPCR(pcr1, pcr2) THEN ToUint64(PCR_SCALE + pcr2 - pcr1)
    ELSE IF WrapUpPCR(pcr2, pcr1) THEN ToUint64(PCR_SCALE + pcr1 - pcr2)
    ELSE IF pcr2 >= pcr1 THEN pcr2 - pcr1
    ELSE pcr1 - pcr2

----------------------------------------------------------------------------
(* PTS arithmetic. *)

DiffPTS(pts1, pts2) ==
    IF pts1 > MAX_PTS_DTS \/ pts2 > MAX_PTS_DTS THEN INVALID_PTS
    ELSE IF pts2 >= pts1 THEN pts2 - pts1 ELSE ToUint64(PTS_DTS_SCALE + pts2 - pts1)

----------------------------------------------------------------------------
(* Timestamp renderer.  A UString is a sequence of characters.  The        *)
(* library's UString::format appends the formatted text to the string:     *)
(* "%0*X" is upper-case hexadecimal, zero-padded to the given width, and   *)
(* "%'d" is decimal with a ',' between groups of three digits.             *)

DigitChars == <<"0", "1", "2", "3", "4", "5", "6", "7", "8", "9",
                "A", "B", "C", "D", "E", "F">>

RECURSIVE Digits(_, _)
Digits(n, base) ==
    IF n < base THEN <<DigitChars[n + 1]>>
    ELSE Digits(n \div base, base) \o <<DigitChars[(n % base) + 1]>>

RECURSIVE Zeros(_)
Zeros(n) == IF n <= 0 THEN <<>> ELSE <<"0">> \o Zeros(n - 1)

\* "%0*X" of {width, value}
FormatHex(width, value) ==
    LET d == Digits(value, 16) IN Zeros(width - Len(d)) \o d

\* "%'d" of {value}
RECURSIVE FormatGrouped(_)
FormatGrouped(value) ==
    IF value < 1000 THEN Digits(value, 10)
    ELSE LET low == Digits(value % 1000, 10)
         IN  FormatGrouped(value \div 1000) \o <<",">> \o Zeros(3 - Len(low)) \o low

TimeStampToString_NoSuppress(value, hexa, decimal, ms, frequency, hex_digits) ==
    LET count0 == 0
        str0   == <<>>
        str1   == IF hexa THEN str0 \o <<"0", "x">> \o FormatHex(hex_digits, value) ELSE str0
        count1 == IF hexa THEN count0 + 1 ELSE count0
        emit2  == decimal
        str2   == IF emit2
                  THEN (IF count1 = 1 THEN str1 \o <<" ", "(">> ELSE str1) \o FormatGrouped(value)
                  ELSE str1
        count2 == IF emit2 THEN count1 + 1 ELSE count1
        emit3  == ms
        str3   == IF emit3
                  THEN (IF count2 = 1 THEN str2 \o <<" ", "(">>
                        ELSE IF count2 > 1 THEN str2 \o <<",", " ">>
                        ELSE str2)
                       \o FormatGrouped(value \div (frequency \div 1000)) \o <<" ", "m", "s">>
                  ELSE str2
        count3 == IF emit3 THEN count2 + 1 ELSE count2
    IN  IF count3 > 1 THEN str3 \o <<")">> ELSE str3

TimeStampToString_CloseAfterThree(value, hexa, decimal, ms, frequency, hex_digits) ==
    LET count0 == 0
        str0   == <<>>
        str1   == IF hexa THEN str0 \o <<"0", "x">> \o FormatHex(hex_digits, value) ELSE str0
        count1 == IF hexa THEN count0 + 1 ELSE count0
        emit2  == decimal /\ (value # 0 \/ count1 = 0)
        str2   == IF emit2
                  THEN (IF count1 = 1 THEN str1 \o <<" ", "(">> ELSE str1) \o FormatGrouped(value)
                  ELSE str1
        count2 == IF emit2 THEN count1 + 1 ELSE count1
        emit3  == ms /\ (value # 0 \/ count2 = 0)
        str3   == IF emit3
                  THEN (IF count2 = 1 THEN str2 \o <<" ", "(">>
                        ELSE IF count2 > 1 THEN str2 \o <<",", " ">>
                        ELSE str2)
                       \o FormatGrouped(value \div (frequency \div 1000)) \o <<" ", "m", "s">>
                  ELSE str2
        count3 == IF emit3 THEN count2 + 1 ELSE count2
    IN  IF count3 > 2 THEN str3 \o <<")">> ELSE str3

TimeStampToString(value, hexa, decimal, ms, frequency, hex_digits) ==
    LET count0 == 0
        str0   == <<>>
        str1   == IF hexa THEN str0 \o <<"0", "x">> \o FormatHex(hex_digits, value) ELSE str0
        count1 == IF hexa THEN count0 + 1 ELSE count0
        emit2  == decimal /\ (value # 0 \/ count1 = 0)
        str2   == IF emit2
                  THEN (IF count1 = 1 THEN str1 \o <<" ", "(">> ELSE str1) \o FormatGrouped(value)
                  ELSE str1
        count2 == IF emit2 THEN count1 + 1 ELSE count1
        emit3  == ms /\ (value # 0 \/ count2 = 0)
        str3   == IF emit3
                  THEN (IF count2 = 1 THEN str2 \o <<" ", "(">>
                        ELSE IF count2 > 1 THEN str2 \o <<",", " ">>
                        ELSE str2)
                       \o FormatGrouped(value \div (frequency \div 1000)) \o <<" ", "m", "s">>
                  ELSE str2
        count3 == IF emit3 THEN count2 + 1 ELSE count2
    IN  IF count3 > 1 THEN str3 \o <<")">> ELSE str3

PCRToString(pcr, hexa, decimal, ms) ==
    TimeStampToString(pcr, hexa, decimal, ms, SYSTEM_CLOCK_FREQ, 11)

PTSToString(pts, hexa, decimal, ms) ==
    TimeStampToString(pts, hexa, decimal, ms, SYSTEM_CLOCK_SUBFREQ, 9)

----------------------------------------------------------------------------
(* Arguments drawn for the calls. *)

\* Every in-range PCR, and out-of-range values up to the sentinel.
PCRValues ==
    (0 .. MAX_PCR) \cup {PCR_SCALE, PCR_SCALE + 1, 2 * PCR_SCALE - 1, 2 * PCR_SCALE,
                         INVALID_PCR - 1, INVALID_PCR}

PTSValues ==
    (0 .. MAX_PTS_DTS) \cup {PTS_DTS_SCALE, PTS_DTS_SCALE + 1, INVALID_PTS - 1, INVALID_PTS}

\* Offsets around zero and at both ends of int64_t.
Offsets ==
    ((-MaxOffsetPeriods * PCR_SCALE) .. (MaxOffsetPeriods * PCR_SCALE))
        \cup (INT64_MIN .. (INT64_MIN + PCR_SCALE))
        \cup ((INT64_MAX - PCR_SCALE) .. INT64_MAX)

\* A bitrate at which a tick product beyond uint64_t is still within one
\* PCR period.
FastBitrate == UINT64_RANGE \div PTS_DTS_SCALE

Bitrates == {0, 1, FastBitrate} \cup {k * BitrateStep : k \in 1 .. MaxBitrateSteps}

Confidences == 0 .. MaxConfidence

\* Packet distances, up to the first ones whose tick product leaves uint64_t.
MaxDistance == (UINT64_RANGE \div (PKT_SIZE_BITS * SYSTEM_CLOCK_FREQ)) + 2

Distances == 0 .. MaxDistance

\* Values to render: around each power of ten, and the ends of the PCR domain.
TimeStampValues ==
    {v \in UNION {{Pow(10, k) - 1, Pow(10, k), 3 * Pow(10, k)} : k \in 0 .. (WordBits \div 3)} :
        v < UINT64_RANGE}
        \cup {MAX_PCR, INVALID_PCR}

\* The extensions of a WrapUpPCR predicate on one pair of operands, under its
\* contract: WrapUpPCR(a, b) and WrapUpPCR(b, a) never both hold.
WrapUpChoices(pcr1, pcr2) ==
    {w \in SUBSET {<<pcr1, pcr2>>, <<pcr2, pcr1>>} :
        ~(<<pcr1, pcr2>> \in w /\ <<pcr2, pcr1>> \in w)}

Calls ==
    [fn : {"SelectBitrate"}, bitrate1 : Bitrates, brc1 : Confidences,
                             bitrate2 : Bitrates, brc2 : Confidences]
    \cup [fn : {"NextPCR"}, last_pcr : PCRValues, distance : Distances, bitrate : Bitrates]
    \cup [fn : {"AddPCR"}, pcr : PCRValues, offset : Offsets]
    \cup [fn : {"DiffPCR", "AbsDiffPCR"}, pcr1 : PCRValues, pcr2 : PCRValues]
    \cup [fn : {"DiffPTS"}, pts1 : PTSValues, pts2 : PTSValues]
    \cup [fn : {"PCRToString", "PTSToString"}, value : TimeStampValues,
                             hexa : BOOLEAN, decimal : BOOLEAN, ms : BOOLEAN]

----------------------------------------------------------------------------
(* The state machine: one call of one function. *)

Init ==
    /\ pc = "call"
    /\ arg \in Calls
    /\ fn = arg.fn
    /\ wrapUp \in (IF arg.fn = "AbsDiffPCR" THEN WrapUpChoices(arg.pcr1, arg.pcr2) ELSE {{}})
    /\ res = 0

Return(f, value) ==
    /\ pc = "call"
    /\ fn = f
    /\ pc' = "returned"
    /\ res' = value
    /\ UNCHANGED <<fn, arg, wrapUp>>

CallSelectBitrate ==
    Return("SelectBitrate", SelectBitrate(arg.bitrate1, arg.brc1, arg.bitrate2, arg.brc2))

CallNextPCR ==
    Return("NextPCR", NextPCR(arg.last_pcr, arg.distance, arg.bitrate))

\* A signed overflow is undefined: the build returns the wrapped value or,
\* built with overflow trapping, aborts.
CallAddPCR ==
    \/ Return("AddPCR", AddPCR(arg.pcr, arg.offset))
    \/ /\ pc = "call"
       /\ fn = "AddPCR"
       /\ AddPCROverflows(arg.pcr, arg.offset)
       /\ pc' = "trapped"
       /\ UNCHANGED <<fn, arg, wrapUp, res>>

CallDiffPCR ==
    Return("DiffPCR", DiffPCR(arg.pcr1, arg.pcr2))

CallAbsDiffPCR ==
    Return("AbsDiffPCR", AbsDiffPCR(arg.pcr1, arg.pcr2))

CallDiffPTS ==
    Return("DiffPTS", DiffPTS(arg.pts1, arg.pts2))

CallPCRToString ==
    Return("PCRToString", PCRToString(arg.value, arg.hexa, arg.decimal, arg.ms))

CallPTSToString ==
    Return("PTSToString", PTSToString(arg.value, arg.hexa, arg.decimal, arg.ms))

Next ==
    \/ CallSelectBitrate
    \/ CallNextPCR
    \/ CallAddPCR
    \/ CallDiffPCR
    \/ CallAbsDiffPCR
    \/ CallDiffPTS
    \/ CallPCRToString
    \/ CallPTSToString

Spec == Init /\ [][Next]_vars

Returned(f) == pc = "returned" /\ fn = f

----------------------------------------------------------------------------
(* Properties of AddPCR. *)

InRangePCR(pcr) == pcr <= MAX_PCR

\* C1: for every valid pcr and every int64_t offset, AddPCR(pcr, offset) is
\* the value of [0, PCR_SCALE) congruent to the mathematical sum pcr + offset
\* modulo PCR_SCALE, and AddPCR(pcr, 0) = pcr.  The code breaks it when
\* int64_t(pcr) + offset overflows.
C1_AddPCRModularSum ==
    (Returned("AddPCR") /\ InRangePCR(arg.pcr)) =>
        /\ res \in 0 .. (PCR_SCALE - 1)
        /\ res = (arg.pcr + arg.offset) % PCR_SCALE
        /\ (arg.offset = 0 => res = arg.pcr)

----------------------------------------------------------------------------
(* Properties of the forward differences. *)

\* C2: for in-range operands DiffPCR(pcr1, pcr2) = (pcr2 - pcr1) mod PCR_SCALE
\* and DiffPTS(pts1, pts2) = (pts2 - pts1) mod PTS_DTS_SCALE: the result is
\* below the scale, 0 for equal operands, and DiffPCR(PCR_SCALE - 1, 0) = 1.
C2_ForwardDiffModular ==
    /\ (Returned("DiffPCR") /\ InRangePCR(arg.pcr1) /\ InRangePCR(arg.pcr2)) =>
          /\ res = (arg.pcr2 - arg.pcr1) % PCR_SCALE
          /\ res < PCR_SCALE
          /\ (arg.pcr1 = arg.pcr2 => res = 0)
          /\ (arg.pcr1 = PCR_SCALE - 1 /\ arg.pcr2 = 0 => res = 1)
    /\ (Returned("DiffPTS") /\ arg.pts1 <= MAX_PTS_DTS /\ arg.pts2 <= MAX_PTS_DTS) =>
          /\ res = (arg.pts2 - arg.pts1) % PTS_DTS_SCALE
          /\ res < PTS_DTS_SCALE
          /\ (arg.pts1 = arg.pts2 => res = 0)

\* A forward difference across the wraparound has been computed.
C2_Witness ==
    /\ Returned("DiffPCR")
    /\ arg.pcr1 = PCR_SCALE - 1
    /\ arg.pcr2 = 0
    /\ res = 1

----------------------------------------------------------------------------
(* Properties of AbsDiffPCR. *)

NeverBothWrapUp(a, b) == ~(WrapUpPCR(a, b) /\ WrapUpPCR(b, a))

\* C3: AbsDiffPCR is symmetric on valid operands, for a WrapUpPCR predicate
\* that never holds in both directions of a pair.
C3_AbsDiffSymmetric ==
    (/\ Returned("AbsDiffPCR")
     /\ InRangePCR(arg.pcr1) /\ InRangePCR(arg.pcr2)
     /\ NeverBothWrapUp(arg.pcr1, arg.pcr2)) =>
        res = AbsDiffPCR(arg.pcr2, arg.pcr1)

\* A distance taken across a wraparound that the predicate reports in one
\* direction only.
C3_Witness ==
    /\ Returned("AbsDiffPCR")
    /\ InRangePCR(arg.pcr1) /\ InRangePCR(arg.pcr2)
    /\ arg.pcr2 < arg.pcr1
    /\ WrapUpPCR(arg.pcr1, arg.pcr2) /\ ~WrapUpPCR(arg.pcr2, arg.pcr1)
    /\ res = PCR_SCALE + arg.pcr2 - arg.pcr1

\* C10 as stated: for in-range operands AbsDiffPCR is one of the two forward
\* differences and below PCR_SCALE, whatever pairs WrapUpPCR accepts.
C10_AbsDiffIsForwardDiff ==
    (Returned("AbsDiffPCR") /\ InRangePCR(arg.pcr1) /\ InRangePCR(arg.pcr2)) =>
        /\ res \in {DiffPCR(arg.pcr1, arg.pcr2), DiffPCR(arg.pcr2, arg.pcr1)}
        /\ res < PCR_SCALE

\* WrapUpPCR accepts a pair only when its second operand is the smaller one.
WrapUpOnlyBackwards == \A p \in wrapUp : p[2] < p[1]

\* C10 amended: when WrapUpPCR accepts only pairs whose second operand is
\* strictly smaller than the first, AbsDiffPCR of in-range operands is one of
\* the two forward differences and below PCR_SCALE.
C10_AbsDiffIsForwardDiffBackwards ==
    (/\ Returned("AbsDiffPCR")
     /\ InRangePCR(arg.pcr1) /\ InRangePCR(arg.pcr2)
     /\ WrapUpOnlyBackwards) =>
        /\ res \in {DiffPCR(arg.pcr1, arg.pcr2), DiffPCR(arg.pcr2, arg.pcr1)}
        /\ res < PCR_SCALE

\* The predicate reports a wraparound from the larger to the smaller operand
\* and the result is the forward difference across it.
C10_Witness ==
    /\ Returned("AbsDiffPCR")
    /\ InRangePCR(arg.pcr1) /\ InRangePCR(arg.pcr2)
    /\ arg.pcr1 < arg.pcr2
    /\ WrapUpPCR(arg.pcr2, arg.pcr1)
    /\ WrapUpOnlyBackwards
    /\ res = DiffPCR(arg.pcr2, arg.pcr1)
    /\ res # arg.pcr2 - arg.pcr1

----------------------------------------------------------------------------
(* Properties of SelectBitrate. *)

\* C4: SelectBitrate returns bitrate2 when bitrate1 is 0, else bitrate1 when
\* bitrate2 is 0, else the mean when the confidences are equal, else the
\* bitrate of strictly higher confidence; it is 0 only when both inputs are 0.
C4_SelectBitrateRule ==
    Returned("SelectBitrate") =>
        /\ (arg.bitrate1 = 0 => res = arg.bitrate2)
        /\ (arg.bitrate1 # 0 /\ arg.bitrate2 = 0 => res = arg.bitrate1)
        /\ (arg.bitrate1 # 0 /\ arg.bitrate2 # 0 /\ arg.brc1 = arg.brc2 =>
                res = (arg.bitrate1 + arg.bitrate2) \div 2)
        /\ (arg.bitrate1 # 0 /\ arg.bitrate2 # 0 /\ arg.brc1 > arg.brc2 =>
                res = arg.bitrate1)
        /\ (arg.bitrate1 # 0 /\ arg.bitrate2 # 0 /\ arg.brc1 < arg.brc2 =>
                res = arg.bitrate2)
        /\ (res = 0 => arg.bitrate1 = 0 /\ arg.bitrate2 = 0)

\* Two different defined bitrates, the second of higher confidence.
C4_Witness ==
    /\ Returned("SelectBitrate")
    /\ arg.bitrate1 # 0 /\ arg.bitrate2 # 0
    /\ arg.bitrate1 # arg.bitrate2
    /\ arg.brc1 < arg.brc2
    /\ res = arg.bitrate2

----------------------------------------------------------------------------
(* The sentinels. *)

\* C5: AddPCR, DiffPCR and AbsDiffPCR return INVALID_PCR exactly when a PCR
\* operand exceeds MAX_PCR, and DiffPTS returns INVALID_PTS exactly when an
\* operand exceeds MAX_PTS_DTS.
C5_SentinelExactlyOutOfRange ==
    /\ Returned("AddPCR") => (res = INVALID_PCR <=> ~InRangePCR(arg.pcr))
    /\ (Returned("DiffPCR") \/ Returned("AbsDiffPCR")) =>
          (res = INVALID_PCR <=> (~InRangePCR(arg.pcr1) \/ ~InRangePCR(arg.pcr2)))
    /\ Returned("DiffPTS") =>
          (res = INVALID_PTS <=> (arg.pts1 > MAX_PTS_DTS \/ arg.pts2 > MAX_PTS_DTS))

\* DiffPCR(PCR_SCALE, 0) has returned the sentinel.
C5_Witness ==
    /\ Returned("DiffPCR")
    /\ arg.pcr1 = PCR_SCALE
    /\ arg.pcr2 = 0
    /\ res = INVALID_PCR

----------------------------------------------------------------------------
(* Properties of NextPCR. *)

\* C6 as stated: for every last_pcr and every non-zero bitrate,
\* NextPCR(last_pcr, 0, bitrate) = last_pcr.
C6_ZeroDistanceAnyPCR ==
    (Returned("NextPCR") /\ arg.distance = 0 /\ arg.bitrate # 0) =>
        res = arg.last_pcr

\* C6 amended: for every last_pcr that is in range or is INVALID_PCR and every
\* non-zero bitrate, NextPCR(last_pcr, 0, bitrate) = last_pcr.
C6_ZeroDistanceValidPCR ==
    (/\ Returned("NextPCR")
     /\ arg.distance = 0
     /\ arg.bitrate # 0
     /\ (InRangePCR(arg.last_pcr) \/ arg.last_pcr = INVALID_PCR)) =>
        res = arg.last_pcr

\* A zero distance from the last in-range PCR.
C6_Witness ==
    /\ Returned("NextPCR")
    /\ arg.distance = 0
    /\ arg.bitrate # 0
    /\ arg.last_pcr = MAX_PCR
    /\ res = MAX_PCR

\* The elapsed ticks of a packet distance at a bitrate, as a mathematical
\* quantity rounded down.
ExpectedTicks(distance, bitrate) ==
    (distance * PKT_SIZE_BITS * SYSTEM_CLOCK_FREQ) \div bitrate

\* Two tick counts are equal modulo PCR_SCALE within one tick of rounding.
WithinRounding(a, b) == ((a - b) % PCR_SCALE) \in {0, 1, PCR_SCALE - 1}

SingleWrapDistance(last_pcr, distance, bitrate) ==
    /\ distance * PKT_SIZE_BITS * SYSTEM_CLOCK_FREQ < UINT64_RANGE
    /\ last_pcr + ExpectedTicks(distance, bitrate) < 2 * PCR_SCALE

----------------------------------------------------------------------------
(* Properties of the timestamp renderer. *)

Rendered == Returned("PCRToString") \/ Returned("PTSToString")

RenderFrequency == IF fn = "PCRToString" THEN SYSTEM_CLOCK_FREQ ELSE SYSTEM_CLOCK_SUBFREQ

RenderHexDigits == IF fn = "PCRToString" THEN 11 ELSE 9

HexaFragment == <<"0", "x">> \o FormatHex(RenderHexDigits, arg.value)

DecimalFragment == FormatGrouped(arg.value)

MsFragment == FormatGrouped(arg.value \div (RenderFrequency \div 1000)) \o <<" ", "m", "s">>

\* The requested representations, in the order hexa, decimal, ms.
RequestedFragments ==
    (IF arg.hexa THEN <<HexaFragment>> ELSE <<>>)
        \o (IF arg.decimal THEN <<DecimalFragment>> ELSE <<>>)
        \o (IF arg.ms THEN <<MsFragment>> ELSE <<>>)

Occurrences(str, c) == Cardinality({i \in 1 .. Len(str) : str[i] = c})

\* frag is a contiguous part of str.
IsInfix(frag, str) ==
    \E i \in 0 .. (Len(str) - Len(frag)) :
        \A j \in 1 .. Len(frag) : str[i + j] = frag[j]

\* C8: for value 0 with at least one flag set exactly one fragment is emitted,
\* the first requested one, without parentheses; for a non-zero value every
\* requested representation is emitted; with no flag set the string is empty.
C8_ZeroSuppression ==
    Rendered =>
        /\ (arg.value = 0 /\ Len(RequestedFragments) >= 1 =>
                /\ res = RequestedFragments[1]
                /\ Occurrences(res, "(") = 0
                /\ Occurrences(res, ")") = 0)
        /\ (arg.value # 0 =>
                /\ \A k \in 1 .. Len(RequestedFragments) : IsInfix(RequestedFragments[k], res)
                /\ Occurrences(res, "x") = (IF arg.hexa THEN 1 ELSE 0)
                /\ Occurrences(res, "m") = (IF arg.ms THEN 1 ELSE 0))
        /\ (Len(RequestedFragments) = 0 => res = <<>>)

\* Value 0 rendered with all three representations requested.
C8_Witness ==
    /\ Rendered
    /\ arg.value = 0
    /\ arg.hexa /\ arg.decimal /\ arg.ms
    /\ res = HexaFragment

\* The fragments the renderer emits: all the requested ones, but only the
\* first of them for value 0.
EmittedFragments ==
    IF arg.value = 0 /\ Len(RequestedFragments) > 1
    THEN <<RequestedFragments[1]>>
    ELSE RequestedFragments

\* The join rule: the first fragment bare, " (" before the second, ", "
\* before the third, ")" after the last when there are several.
JoinFragments(frags) ==
    IF Len(frags) = 0 THEN <<>>
    ELSE IF Len(frags) = 1 THEN frags[1]
    ELSE frags[1] \o <<" ", "(">> \o frags[2]
            \o (IF Len(frags) = 3 THEN <<",", " ">> \o frags[3] ELSE <<>>)
            \o <<")">>

\* C9: the output is the emitted fragments in the order hexa, decimal, ms,
\* joined by the rule; it holds one "(" and one final ")" if and only if more
\* than one fragment is emitted, and no parenthesis otherwise.
C9_JoinRule ==
    Rendered =>
        /\ res = JoinFragments(EmittedFragments)
        /\ Occurrences(res, "(") = (IF Len(EmittedFragments) > 1 THEN 1 ELSE 0)
        /\ Occurrences(res, ")") = Occurrences(res, "(")
        /\ (Len(EmittedFragments) > 1 => res[Len(res)] = ")")

\* A non-zero value rendered in all three representations.
C9_Witness ==
    /\ Rendered
    /\ arg.value # 0
    /\ arg.hexa /\ arg.decimal /\ arg.ms
    /\ Occurrences(res, "(") = 1
    /\ res[Len(res)] = ")"

====
